---- MODULE Spec2Model ----
(***************************************************************************)
(* Model of src/server.py: the model registries, the two lazy-loading      *)
(* caches (get_model, get_llm), the start-up warm-up of create_app and the *)
(* four request handlers (/models, /caption, /generate, /health).          *)
(*                                                                         *)
(* Python values are modelled as follows.                                  *)
(*   str            a TLA+ string                                          *)
(*   None / absent  the empty tuple <<>>; a present value x is <<x>>       *)
(*   JSON value     a record tagged by t: "str", "int", "float", "bool",  *)
(*                  "null", "array", "object"                              *)
(*   float          a decimal [m, e] standing for m / 10^e                 *)
(*   dict           a function whose DOMAIN is the set of keys             *)
(* The third-party libraries (model loading, inference, image decoding)    *)
(* are oracles: each call's outcome is an input of the action.             *)
(***************************************************************************)
EXTENDS Integers, Sequences, FiniteSets, TLC

\* ---------------------------------------------------------------- bounds
\* Total number of backend initialisations (attempts) in one behaviour.
MaxLoads == 4

\* ------------------------------------------------------- optional values
None == <<>>
Some(x) == <<x>>
IsNone(o) == o = <<>>
Val(o) == o[1]

\* The empty dict.
EmptyDict == [x \in {} |-> None]

\* dict.get(key, default) on a dict of strings.
DictGet(d, k, default) == IF k \in DOMAIN d THEN d[k] ELSE default

\* ------------------------------------------------------------ registries
FlorenceModes ==
    [m \in {"caption", "more_detailed", "ocr", "dense", "od"} |->
        CASE m = "caption" -> "<CAPTION>"
          [] m = "more_detailed" -> "<MORE_DETAILED_CAPTION>"
          [] m = "ocr" -> "<OCR>"
          [] m = "dense" -> "<DENSE_CAPTION>"
          [] m = "od" -> "<OD>"]

MoondreamModes ==
    [m \in {"caption", "roast"} |-> m]

\* Registry order of the image models and of the text models.
MODEL_KEYS == <<"blip-base", "blip-large", "vit-gpt2", "florence-2", "moondream-2">>

LLM_KEYS == <<"smollm2-1.7b", "phi3-mini", "gemma2-2b", "qwen2.5-1.5b", "tinyllama-1.1b">>

\* A descriptor key the dict does not hold reads as None (info.get).
MODELS ==
    [k \in {MODEL_KEYS[i] : i \in 1..Len(MODEL_KEYS)} |->
        CASE k = "blip-base" ->
               [name |-> "BLIP Base",
                model |-> "Salesforce/blip-image-captioning-base",
                description |-> "Fast and lightweight (500MB)",
                type |-> None, default_mode |-> None, modes |-> None,
                revision |-> None]
          [] k = "blip-large" ->
               [name |-> "BLIP Large",
                model |-> "Salesforce/blip-image-captioning-large",
                description |-> "More detailed captions (2GB)",
                type |-> None, default_mode |-> None, modes |-> None,
                revision |-> None]
          [] k = "vit-gpt2" ->
               [name |-> "ViT-GPT2",
                model |-> "nlpconnect/vit-gpt2-image-captioning",
                description |-> "Alternative model (500MB)",
                type |-> None, default_mode |-> None, modes |-> None,
                revision |-> None]
          [] k = "florence-2" ->
               [name |-> "Florence-2 Base",
                model |-> "microsoft/Florence-2-base",
                description |-> "High-quality captions (custom loader, ~1.5GB)",
                type |-> Some("florence"),
                default_mode |-> Some("more_detailed"),
                modes |-> Some(FlorenceModes),
                revision |-> None]
          [] k = "moondream-2" ->
               [name |-> "Moondream2",
                model |-> "vikhyatk/moondream2",
                description |-> "Lightweight VLM (fast CPU, ~1-2GB RAM)",
                type |-> Some("moondream"),
                default_mode |-> Some("caption"),
                modes |-> Some(MoondreamModes),
                revision |-> Some("2025-06-21")]]

SmolPadTokenId == 128000

LLM_MODELS ==
    [k \in {LLM_KEYS[i] : i \in 1..Len(LLM_KEYS)} |->
        CASE k = "smollm2-1.7b" ->
               [name |-> "SmolLM2 1.7B Instruct",
                model |-> "HuggingFaceTB/SmolLM2-1.7B-Instruct",
                description |-> "Tiny instruct model (fast CPU, ~1.5GB RAM)",
                pad_token_id |-> Some(SmolPadTokenId)]
          [] k = "phi3-mini" ->
               [name |-> "Phi-3 Mini 4k",
                model |-> "microsoft/Phi-3-mini-4k-instruct",
                description |-> "Reasoning-focused small model (~3GB RAM)",
                pad_token_id |-> None]
          [] k = "gemma2-2b" ->
               [name |-> "Gemma-2 2B IT",
                model |-> "google/gemma-2-2b-it",
                description |-> "Creative text, ~2GB RAM",
                pad_token_id |-> None]
          [] k = "qwen2.5-1.5b" ->
               [name |-> "Qwen2.5 1.5B Instruct",
                model |-> "Qwen/Qwen2.5-1.5B-Instruct",
                description |-> "Multilingual ultra-light (~1GB RAM)",
                pad_token_id |-> None]
          [] k = "tinyllama-1.1b" ->
               [name |-> "TinyLlama 1.1B Chat",
                model |-> "TinyLlama/TinyLlama-1.1B-Chat-v1.0",
                description |-> "Very fast, basic chat (~1GB RAM)",
                pad_token_id |-> None]]

\* MODELS["florence-2"].get("modes", {})
FLORENCE_TAGS ==
    IF IsNone(MODELS["florence-2"].modes) THEN EmptyDict
    ELSE Val(MODELS["florence-2"].modes)

\* A mapping that falls back to the plain caption tag, not to the
\* descriptor's default mode.
florence_prompt_plain_fallback(mode) ==
    IF IsNone(mode) THEN FLORENCE_TAGS["caption"]
    ELSE DictGet(FLORENCE_TAGS, Val(mode), FLORENCE_TAGS["caption"])

\* mode is an optional string; a None mode is no key of the table.
florence_prompt_for_mode(mode) ==
    LET default_mode ==
            IF IsNone(MODELS["florence-2"].default_mode) THEN "more_detailed"
            ELSE Val(MODELS["florence-2"].default_mode)
        fallback == DictGet(FLORENCE_TAGS, default_mode, "<MORE_DETAILED_CAPTION>")
    IN  IF IsNone(mode) THEN fallback
        ELSE DictGet(FLORENCE_TAGS, Val(mode), fallback)

\* --------------------------------------------------------------- strings
\* str.startswith
StartsWith(s, p) == Len(p) <= Len(s) /\ SubSeq(s, 1, Len(p)) = p

\* s[n:]
DropPrefix(s, n) == SubSeq(s, n + 1, Len(s))

HasChar(s, c) == \E i \in 1..Len(s) : SubSeq(s, i, i) = c

\* The ASCII characters for which str.isspace holds, which str.strip
\* removes: space, \t, \n, \r, \f, and the vertical tab and the four
\* separators 0x1c to 0x1f, written as themselves.  (The whitespace beyond
\* ASCII is not modelled: a string here is a string of ASCII characters.)
Whitespace == " \t\n\r\f"

IsSpace(c) == HasChar(Whitespace, c)

RECURSIVE LStrip(_)
LStrip(s) ==
    IF Len(s) > 0 /\ IsSpace(SubSeq(s, 1, 1)) THEN LStrip(SubSeq(s, 2, Len(s)))
    ELSE s

RECURSIVE RStrip(_)
RStrip(s) ==
    IF Len(s) > 0 /\ IsSpace(SubSeq(s, Len(s), Len(s)))
    THEN RStrip(SubSeq(s, 1, Len(s) - 1))
    ELSE s

\* str.strip
Strip(s) == RStrip(LStrip(s))

\* The control characters repr writes as \xNN (0x01 to 0x1f without \t, \n
\* and \r, and 0x7f), written as themselves but for \f, and what repr
\* writes for each.
ControlChars == "\f"

ControlNames ==
    <<"\\x01", "\\x02", "\\x03", "\\x04", "\\x05", "\\x06", "\\x07",
      "\\x08", "\\x0b", "\\x0c", "\\x0e", "\\x0f", "\\x10", "\\x11",
      "\\x12", "\\x13", "\\x14", "\\x15", "\\x16", "\\x17", "\\x18",
      "\\x19", "\\x1a", "\\x1b", "\\x1c", "\\x1d", "\\x1e", "\\x1f",
      "\\x7f">>

\* One character of repr(s) inside the quotes q.
ReprChar(c, q) ==
    CASE c = "\\" -> "\\\\"
      [] c = "\n" -> "\\n"
      [] c = "\r" -> "\\r"
      [] c = "\t" -> "\\t"
      [] c = q -> "\\" \o q
      [] HasChar(ControlChars, c) ->
            ControlNames[CHOOSE i \in 1..Len(ControlChars) :
                            SubSeq(ControlChars, i, i) = c]
      [] OTHER -> c

RECURSIVE ReprBody(_, _)
ReprBody(s, q) ==
    IF Len(s) = 0 THEN ""
    ELSE IF Len(s) = 1 THEN ReprChar(s, q)
    ELSE ReprBody(SubSeq(s, 1, Len(s) \div 2), q)
         \o ReprBody(SubSeq(s, Len(s) \div 2 + 1, Len(s)), q)

\* repr(s) of a str: single quotes, unless s holds a single quote and no
\* double quote.
Repr(s) ==
    LET q == IF HasChar(s, "'") /\ ~HasChar(s, "\"") THEN "\"" ELSE "'"
    IN  q \o ReprBody(s, q) \o q

Uppers == "ABCDEFGHIJKLMNOPQRSTUVWXYZ"
Lowers == "abcdefghijklmnopqrstuvwxyz"

LowerChar(c) ==
    IF HasChar(Uppers, c)
    THEN LET i == CHOOSE j \in 1..Len(Uppers) : SubSeq(Uppers, j, j) = c
         IN  SubSeq(Lowers, i, i)
    ELSE c

\* str.lower, on ASCII letters
RECURSIVE Lower(_)
Lower(s) ==
    IF Len(s) = 0 THEN ""
    ELSE IF Len(s) = 1 THEN LowerChar(s)
    ELSE Lower(SubSeq(s, 1, Len(s) \div 2))
         \o Lower(SubSeq(s, Len(s) \div 2 + 1, Len(s)))

\* ------------------------------------------------------------ JSON values
JStr(s) == [t |-> "str", s |-> s]
JInt(n) == [t |-> "int", n |-> n]
JFloat(m, e) == [t |-> "float", m |-> m, e |-> e]
JBool(b) == [t |-> "bool", b |-> b]
JNull == [t |-> "null"]
\* A JSON list of len items (the items themselves are never read).
JList(len) == [t |-> "array", len |-> len]
JArray == JList(1)

\* The name Python's messages give the type of a JSON value.
TypeName(v) ==
    CASE v.t = "null" -> "NoneType"
      [] v.t = "array" -> "list"
      [] v.t = "object" -> "dict"
      [] v.t = "bool" -> "bool"
      [] v.t = "int" -> "int"
      [] v.t = "float" -> "float"
      [] OTHER -> "str"

\* Python truthiness of a JSON value: None, False, 0, 0.0, "", [] and {}
\* are falsy.
JTruthy(v) ==
    CASE v.t = "null" -> FALSE
      [] v.t = "bool" -> v.b
      [] v.t = "int" -> v.n # 0
      [] v.t = "float" -> v.m # 0
      [] v.t = "str" -> v.s # ""
      [] v.t = "array" -> v.len > 0
      [] OTHER -> DOMAIN v.fields # {}

\* ------------------------------------------------------------------ state
VARIABLES
    startup,      \* create_app: "pending" before it runs, then "loaded" or
                  \* "failed", the outcome of the warm-up load
    model_cache,  \* dict: image-model key -> loaded handle
    llm_cache,    \* dict: text-model key -> loaded handle
    loads,        \* per registered key, the backend initialisations attempted
    failed,       \* whether a backend initialisation of the warm-up or of a
                  \* cache call has raised
    served,       \* per requested identifier, the handle the warm-up or the
                  \* latest cache call to return with it returned
    written,      \* per registered key, the handle stored last in its cache
    last,         \* what the step taken last answered
    pc,           \* each request thread's position
    local         \* each request thread's local variables

vars == <<startup, model_cache, llm_cache, loads, failed, served, written, last,
          pc, local>>

ImageKeySet == DOMAIN MODELS
LlmKeySet == DOMAIN LLM_MODELS

\* The total number of backend initialisations attempted.
RECURSIVE SumOver(_, _)
SumOver(f, S) ==
    IF S = {} THEN 0
    ELSE LET x == CHOOSE y \in S : TRUE IN f[x] + SumOver(f, S \ {x})

TotalLoads(l) == SumOver(l, DOMAIN l)

\* ------------------------------------------------------------ model cache
\* A store that keeps the handle a key already has (dict.setdefault).
CachePutIfAbsent(cache, key, handle) ==
    [k \in DOMAIN cache \cup {key} |-> IF k \in DOMAIN cache THEN cache[k] ELSE handle]

\* model_cache[key] = handle
CachePut(cache, key, handle) ==
    [k \in DOMAIN cache \cup {key} |-> IF k = key THEN handle ELSE cache[k]]

\* if model_key not in MODELS: model_key = "blip-base"
ResolveModelKey(model_key) ==
    IF model_key \notin DOMAIN MODELS THEN "blip-base" ELSE model_key

\* A loader that builds the generic pipeline whatever the descriptor's
\* type.
LoadModelAsPipeline(key, n) ==
    [type |-> "pipeline",
     model |-> [pretrained |-> MODELS[key].model, revision |-> None, n |-> n]]

\* The handle built for a descriptor; n tells apart the objects that
\* successive initialisations of one model create.
LoadModel(key, n) ==
    LET info == MODELS[key]
    IN  IF info.type = Some("florence")
        THEN [type |-> "florence",
              processor |-> [pretrained |-> info.model, n |-> n],
              model |-> [pretrained |-> info.model, revision |-> None, n |-> n]]
        ELSE IF info.type = Some("moondream")
        THEN [type |-> "moondream",
              model |-> [pretrained |-> info.model, revision |-> info.revision,
                         n |-> n]]
        ELSE [type |-> "pipeline",
              model |-> [pretrained |-> info.model, revision |-> None, n |-> n]]

LoadError == "backend initialization failed"

\* A get_model that reserves the cache entry before the backend is
\* initialised, so that a failed load leaves the entry behind.
get_model_reserving(cache, l, model_key, ok) ==
    IF model_key \in DOMAIN cache
    THEN [cache |-> cache, loads |-> l, init |-> None, raised |-> None,
          ret |-> Some(cache[model_key])]
    ELSE LET key == ResolveModelKey(model_key)
             l2 == [l EXCEPT ![key] = @ + 1]
             c2 == CachePut(cache, key, LoadModel(key, l2[key]))
         IN  IF ~ok
             THEN [cache |-> c2, loads |-> l2, init |-> Some(key),
                   raised |-> Some(LoadError), ret |-> None]
             ELSE [cache |-> c2, loads |-> l2, init |-> Some(key),
                   raised |-> None, ret |-> Some(c2[key])]

\* get_model(model_key) in the state (cache, l); ok tells whether the
\* backend initialisation succeeds.  init is the key whose backend the call
\* initialised (None on a cache hit), raised the exception it raises.
get_model(cache, l, model_key, ok) ==
    IF model_key \in DOMAIN cache
    THEN [cache |-> cache, loads |-> l, init |-> None, raised |-> None,
          ret |-> Some(cache[model_key])]
    ELSE LET key == ResolveModelKey(model_key)
             l2 == [l EXCEPT ![key] = @ + 1]
         IN  IF ~ok
             THEN [cache |-> cache, loads |-> l2, init |-> Some(key),
                   raised |-> Some(LoadError), ret |-> None]
             ELSE LET c2 == CachePut(cache, key, LoadModel(key, l2[key]))
                  IN  [cache |-> c2, loads |-> l2, init |-> Some(key),
                       raised |-> None, ret |-> Some(c2[key])]

\* -------------------------------------------------------------- llm cache
\* Python truthiness of an optional int (None and 0 are falsy).
Truthy(o) == ~IsNone(o) /\ Val(o) # 0

\* The pad-token id get_llm resolves; tokenizer is the pipeline's
\* tokenizer (None when the pipeline has none).
ResolvePad(info, tokenizer) ==
    IF ~IsNone(tokenizer) /\ IsNone(info.pad_token_id)
    THEN IF Truthy(Val(tokenizer).pad_token_id)
         THEN Val(tokenizer).pad_token_id
         ELSE Val(tokenizer).eos_token_id
    ELSE info.pad_token_id

\* The tokenizer after get_llm has ensured a pad token.
PatchTokenizer(tokenizer, pad_token_id) ==
    IF ~IsNone(tokenizer) /\ IsNone(Val(tokenizer).pad_token_id)
       /\ ~IsNone(pad_token_id)
    THEN Some([Val(tokenizer) EXCEPT !.pad_token_id = pad_token_id])
    ELSE tokenizer

LoadLlm(key, n, tokenizer) ==
    LET info == LLM_MODELS[key]
        pad_token_id == ResolvePad(info, tokenizer)
    IN  [pipe |-> [pretrained |-> info.model, n |-> n,
                   tokenizer |-> PatchTokenizer(tokenizer, pad_token_id)],
         pad_token_id |-> pad_token_id]

\* if model_key not in LLM_MODELS: model_key = "smollm2-1.7b"
\* (model_key is the JSON value of the request's "model" field)
ResolveLlmKey(model_key) ==
    IF model_key.t = "str" /\ model_key.s \in DOMAIN LLM_MODELS THEN model_key.s
    ELSE "smollm2-1.7b"

\* model_key in llm_cache
InLlmCache(cache, model_key) ==
    model_key.t = "str" /\ model_key.s \in DOMAIN cache

\* A list or a dict is no dict key: the membership test raises.
Hashable(v) == v.t \notin {"array", "object"}

Unhashable(v) == "unhashable type: '" \o TypeName(v) \o "'"

\* get_llm(model_key); env.ok tells whether the pipeline is built,
\* env.tokenizer is the tokenizer the built pipeline carries.
get_llm(cache, l, model_key, env) ==
    IF ~Hashable(model_key)
    THEN [cache |-> cache, loads |-> l, init |-> None,
          raised |-> Some(Unhashable(model_key)), ret |-> None]
    ELSE IF InLlmCache(cache, model_key)
    THEN [cache |-> cache, loads |-> l, init |-> None, raised |-> None,
          ret |-> Some(cache[model_key.s])]
    ELSE LET key == ResolveLlmKey(model_key)
             l2 == [l EXCEPT ![key] = @ + 1]
         IN  IF ~env.ok
             THEN [cache |-> cache, loads |-> l2, init |-> Some(key),
                   raised |-> Some(LoadError), ret |-> None]
             ELSE LET c2 == CachePut(cache, key,
                                     LoadLlm(key, l2[key], env.tokenizer))
                  IN  [cache |-> c2, loads |-> l2, init |-> Some(key),
                       raised |-> None, ret |-> Some(c2[key])]

\* ------------------------------------------------ int() and float() of JSON
\* Numeric literals are read as Python reads them.  TLC's integers are 32
\* bits wide: the literals of the modelled requests are below 2^31.
Digits == {"0", "1", "2", "3", "4", "5", "6", "7", "8", "9"}

DigitVal(c) == CHOOSE d \in 0..9 : SubSeq("0123456789", d + 1, d + 1) = c

IsDigits(s) == \A i \in 1..Len(s) : SubSeq(s, i, i) \in Digits

\* A digit string with single underscores between digits ("1_000").
IsDigitGroups(s) ==
    /\ Len(s) > 0
    /\ SubSeq(s, 1, 1) \in Digits
    /\ SubSeq(s, Len(s), Len(s)) \in Digits
    /\ \A i \in 1..Len(s) : SubSeq(s, i, i) \in Digits \cup {"_"}
    /\ \A i \in 1..(Len(s) - 1) : SubSeq(s, i, i + 1) # "__"

RECURSIVE DropUnderscores(_)
DropUnderscores(s) ==
    IF Len(s) = 0 THEN ""
    ELSE IF Len(s) = 1 THEN (IF s = "_" THEN "" ELSE s)
    ELSE DropUnderscores(SubSeq(s, 1, Len(s) \div 2))
         \o DropUnderscores(SubSeq(s, Len(s) \div 2 + 1, Len(s)))

RECURSIVE ParseNat(_)
ParseNat(s) ==
    IF Len(s) = 0 THEN 0
    ELSE ParseNat(SubSeq(s, 1, Len(s) - 1)) * 10
         + DigitVal(SubSeq(s, Len(s), Len(s)))

RECURSIVE Pow10(_)
Pow10(e) == IF e = 0 THEN 1 ELSE 10 * Pow10(e - 1)

\* The sign (1 or -1) and the unsigned rest of a numeric literal.
Signed(s) ==
    IF Len(s) > 0 /\ SubSeq(s, 1, 1) = "-" THEN [sign |-> -1, rest |-> DropPrefix(s, 1)]
    ELSE IF Len(s) > 0 /\ SubSeq(s, 1, 1) = "+" THEN [sign |-> 1, rest |-> DropPrefix(s, 1)]
    ELSE [sign |-> 1, rest |-> s]

\* The places of "." in s.
Dots(s) == {i \in 1..Len(s) : SubSeq(s, i, i) = "."}

\* The places of the exponent marker in s.
Exps(s) == {i \in 1..Len(s) : SubSeq(s, i, i) \in {"e", "E"}}

\* A float is a decimal [m, e] standing for the double nearest to
\* m / 10^e, with m not divisible by 10 (0.0 is [0, 0]), or one of the
\* values [special |-> "inf" | "-inf" | "nan" | "-0.0"].
RECURSIVE NumDigits(_)
NumDigits(m) == IF m < 10 THEN 1 ELSE 1 + NumDigits(m \div 10)

RECURSIVE Reduce(_, _)
Reduce(m, e) == IF m # 0 /\ m % 10 = 0 THEN Reduce(m \div 10, e - 1) ELSE [m |-> m, e |-> e]

\* The double of sign * m / 10^e (m >= 0, of at most ten digits): from
\* halfway past the largest double, 1.7976931348623158e308, it is an
\* infinity; up to half the smallest one, 2.4703282292062327e-324, a zero.
\* lead is the first nine digits of m and tenth the tenth.
MakeFloat(sign, m, e) ==
    LET r == Reduce(m, e)
        d == NumDigits(r.m)
        p == d - r.e
        lead == IF d <= 9 THEN r.m * Pow10(9 - d) ELSE r.m \div Pow10(d - 9)
        tenth == IF d <= 9 THEN 0 ELSE (r.m \div Pow10(d - 10)) % 10
        zero == IF sign < 0 THEN [special |-> "-0.0"] ELSE [m |-> 0, e |-> 0]
    IN  IF r.m = 0 THEN zero
        ELSE IF \/ p > 309
                \/ p = 309 /\ lead > 179769313
                \/ p = 309 /\ lead = 179769313 /\ tenth >= 5
        THEN [special |-> IF sign < 0 THEN "-inf" ELSE "inf"]
        ELSE IF p < -323 \/ (p = -323 /\ lead <= 247032822)
        THEN zero
        ELSE [m |-> sign * r.m, e |-> r.e]

\* The whitespace int and float skip around the literal of an ASCII
\* string: space, \t, \n, \r, \f and the vertical tab, not the separators
\* 0x1c to 0x1f.
NumberSpace == " \t\n\r\f"

RECURSIVE NumberStrip(_)
NumberStrip(s) ==
    IF Len(s) > 0 /\ HasChar(NumberSpace, SubSeq(s, 1, 1))
    THEN NumberStrip(SubSeq(s, 2, Len(s)))
    ELSE IF Len(s) > 0 /\ HasChar(NumberSpace, SubSeq(s, Len(s), Len(s)))
    THEN NumberStrip(SubSeq(s, 1, Len(s) - 1))
    ELSE s

\* The characters of repr(s) the ValueError of int shows (%.200R).
ReprShown(s) == IF Len(Repr(s)) > 200 THEN 200 ELSE Len(Repr(s))

\* int(v) of a JSON value: the integer, or the exception's message.  A
\* string is stripped of whitespace and read as an optional sign and digit
\* groups.
PyInt(v) ==
    CASE v.t = "int" -> [ok |-> TRUE, v |-> v.n]
      [] v.t = "bool" -> [ok |-> TRUE, v |-> IF v.b THEN 1 ELSE 0]
      [] v.t = "float" ->
            LET a == IF v.m >= 0 THEN v.m ELSE -v.m
                q == IF v.e >= 0 THEN a \div Pow10(v.e) ELSE a * Pow10(-v.e)
            IN  [ok |-> TRUE, v |-> IF v.m >= 0 THEN q ELSE -q]
      [] v.t = "str" ->
            LET u == Signed(NumberStrip(v.s))
            IN  IF IsDigitGroups(u.rest)
                THEN [ok |-> TRUE,
                      v |-> u.sign * ParseNat(DropUnderscores(u.rest))]
                ELSE [ok |-> FALSE,
                      msg |-> "invalid literal for int() with base 10: "
                              \o SubSeq(Repr(v.s), 1, ReprShown(v.s))]
      [] OTHER ->
            [ok |-> FALSE,
             msg |-> "int() argument must be a string, a bytes-like object or a real number, not '"
                     \o TypeName(v) \o "'"]

\* s cut at the first of places: the text before it and the text after it
\* (all of s and nothing when there is no place).
SplitAt(s, places) ==
    LET at == IF places = {} THEN Len(s) + 1 ELSE CHOOSE i \in places : TRUE
    IN  [head |-> SubSeq(s, 1, at - 1), tail |-> SubSeq(s, at + 1, Len(s))]

\* The float of sign, the digits whole and frac around the point and the
\* signed exponent ex (hasExp tells whether one is written), or nothing
\* when they are no digit groups.
FloatOfDigits(sign, whole, frac, hasExp, ex) ==
    IF /\ whole = "" \/ IsDigitGroups(whole)
       /\ frac = "" \/ IsDigitGroups(frac)
       /\ Len(whole) + Len(frac) > 0
       /\ hasExp => IsDigitGroups(ex.rest)
    THEN Some(MakeFloat(sign, ParseNat(DropUnderscores(whole \o frac)),
                        Len(DropUnderscores(frac))
                        - (IF hasExp
                           THEN ex.sign * ParseNat(DropUnderscores(ex.rest))
                           ELSE 0)))
    ELSE None

\* The float of sign and the mantissa and exponent texts.
FloatOfParts(sign, mant, hasExp, exptext) ==
    IF Cardinality(Dots(mant)) > 1 THEN None
    ELSE FloatOfDigits(sign, SplitAt(mant, Dots(mant)).head,
                       SplitAt(mant, Dots(mant)).tail, hasExp, Signed(exptext))

\* The float of a sign and an unsigned literal: "inf", "infinity" or "nan"
\* in any case, or digit groups with an optional point and an optional
\* exponent.
FloatOfLiteral(sign, rest) ==
    IF Lower(rest) \in {"inf", "infinity"}
    THEN Some([special |-> IF sign < 0 THEN "-inf" ELSE "inf"])
    ELSE IF Lower(rest) = "nan" THEN Some([special |-> "nan"])
    ELSE IF Cardinality(Exps(rest)) > 1 THEN None
    ELSE FloatOfParts(sign, SplitAt(rest, Exps(rest)).head, Exps(rest) # {},
                      SplitAt(rest, Exps(rest)).tail)

\* float(s) of a string: s is stripped of whitespace and read as an
\* optional sign and a literal.
FloatOfStr(s, parsed) ==
    IF IsNone(parsed)
    THEN [ok |-> FALSE, msg |-> "could not convert string to float: " \o Repr(s)]
    ELSE [ok |-> TRUE, v |-> Val(parsed)]

\* float(v) of a JSON value: the float, or the exception's message.
PyFloat(v) ==
    CASE v.t = "bool" -> [ok |-> TRUE, v |-> [m |-> IF v.b THEN 1 ELSE 0, e |-> 0]]
      [] v.t = "int" ->
            [ok |-> TRUE,
             v |-> MakeFloat(IF v.n < 0 THEN -1 ELSE 1,
                             IF v.n < 0 THEN -v.n ELSE v.n, 0)]
      [] v.t = "float" ->
            [ok |-> TRUE,
             v |-> MakeFloat(IF v.m < 0 THEN -1 ELSE 1,
                             IF v.m < 0 THEN -v.m ELSE v.m, v.e)]
      [] v.t = "str" ->
            FloatOfStr(v.s, FloatOfLiteral(Signed(NumberStrip(v.s)).sign,
                                           Signed(NumberStrip(v.s)).rest))
      [] OTHER ->
            [ok |-> FALSE,
             msg |-> "float() argument must be a string or a real number, not '"
                     \o TypeName(v) \o "'"]

\* ------------------------------------------------------------- responses
Ok(body) == [status |-> 200, body |-> body]
BadRequest(msg) == [status |-> 400, body |-> [error |-> msg]]
ServerError(msg) == [status |-> 500, body |-> [error |-> msg]]

DecodeError == "cannot identify image file"
InferenceError == "inference failed"

\* A handler default that differs from the model warmed up.
DefaultImageModelBlip == "blip-base"

DefaultImageModel == "florence-2"
DefaultLlm == "smollm2-1.7b"
RoastPrompt == "Roast this image in one short, witty sentence."

\* What a handler that touched no cache reports.
Untouched(cache, l, resp) ==
    [cache |-> cache, loads |-> l, key |-> None, init |-> None, ret |-> None,
     call |-> None, resp |-> resp]

\* --------------------------------------------------------------- /caption
\* The florence branch: env.out is None when inference raises, else the
\* decoded text [shape, text]; shape "echo" puts the prompt tag in front.
CaptionFlorence(question, mode, out) ==
    LET prompt == florence_prompt_for_mode(mode)
        question_prefix ==
            IF question # "" THEN "Question: " \o question \o "\nAnswer: " ELSE ""
        call == [fn |-> "generate", prompt |-> Some(prompt)]
    IN  IF IsNone(out) THEN [call |-> call, raised |-> Some(InferenceError)]
        ELSE LET decoded == IF Val(out).shape = "echo"
                            THEN prompt \o Val(out).text ELSE Val(out).text
                 caption == IF StartsWith(decoded, prompt)
                            THEN Strip(DropPrefix(decoded, Len(prompt)))
                            ELSE decoded
             IN  [call |-> call, raised |-> None,
                  caption |-> Some(question_prefix \o caption)]

\* The moondream branch: shape "dict" is a dict result holding the field
\* read, "dict_empty" a dict without it, anything else a non-dict result.
CaptionMoondream(model_key, question, mode, out) ==
    LET prompt == IF question # "" THEN Some(Strip(question)) ELSE None
        descriptor_mode ==
            IF model_key \in DOMAIN MODELS
               /\ ~IsNone(MODELS[model_key].default_mode)
            THEN Val(MODELS[model_key].default_mode) ELSE "caption"
        mode_to_use ==
            IF ~IsNone(mode) /\ Val(mode) # "" THEN Val(mode) ELSE descriptor_mode
        query == IF ~IsNone(prompt) /\ Val(prompt) # "" THEN Val(prompt)
                 ELSE RoastPrompt
        call == IF mode_to_use = "roast"
                THEN [fn |-> "query", prompt |-> Some(query)]
                ELSE [fn |-> "caption", prompt |-> None]
    IN  IF IsNone(out) THEN [call |-> call, raised |-> Some(InferenceError)]
        ELSE [call |-> call, raised |-> None,
              caption |-> CASE Val(out).shape = "dict" -> Some(Val(out).text)
                            [] Val(out).shape = "dict_empty" -> None
                            [] OTHER -> Some(Val(out).text)]

\* The generic pipeline branch.
CaptionPipeline(out) ==
    LET call == [fn |-> "pipeline", prompt |-> None]
    IN  IF IsNone(out) THEN [call |-> call, raised |-> Some(InferenceError)]
        ELSE [call |-> call, raised |-> None, caption |-> Some(Val(out).text)]

\* caption_image from the handle get_model returned to the response: the
\* backend of the handle's type is run; out is the outcome of inference.
CaptionRun(base, model_key, question, mode, loaded, out) ==
    LET r == IF loaded.type = "florence"
             THEN CaptionFlorence(question, mode, out)
             ELSE IF loaded.type = "moondream"
             THEN CaptionMoondream(model_key, question, mode, out)
             ELSE CaptionPipeline(out)
    IN  IF ~IsNone(r.raised)
        THEN base @@ [call |-> Some(r.call),
                      resp |-> ServerError("Error analyzing image: "
                                           \o Val(r.raised))]
        ELSE base @@ [call |-> Some(r.call), resp |-> Ok([text |-> r.caption])]

\* The form fields caption_image reads.
CaptionForm(req) ==
    [model_key |-> IF IsNone(req.model) THEN DefaultImageModel ELSE Val(req.model),
     question |-> IF IsNone(req.question) THEN "" ELSE Val(req.question),
     mode |-> req.mode]

\* caption_image once the upload is accepted, run without interruption:
\* the image is decoded, the model resolved, the backend run.  req is the
\* multipart form, env the outcomes of the library calls (decode:
\* Image.open, load: backend initialisation, out: inference).
CaptionBody(cache, l, req, env) ==
    LET f == CaptionForm(req)
    IN  IF ~env.decode
        THEN Untouched(cache, l,
                       ServerError("Error analyzing image: " \o DecodeError))
        ELSE
        LET g == get_model(cache, l, f.model_key, env.load)
            base == [cache |-> g.cache, loads |-> g.loads,
                     key |-> Some(JStr(f.model_key)),
                     init |-> g.init, ret |-> g.ret]
        IN  IF ~IsNone(g.raised)
            THEN base @@ [call |-> None,
                          resp |-> ServerError("Error analyzing image: "
                                               \o Val(g.raised))]
            ELSE CaptionRun(base, f.model_key, f.question, f.mode,
                            Val(g.ret), env.out)

\* A handler that resolves the model before it validates the upload.
caption_image_resolve_first(cache, l, req, env) ==
    LET r == CaptionBody(cache, l, req, env)
    IN  IF IsNone(req.image)
        THEN [r EXCEPT !.resp = BadRequest("No image provided")]
        ELSE IF Val(req.image).filename = ""
        THEN [r EXCEPT !.resp = BadRequest("No image selected")]
        ELSE r

\* caption_image: the upload is validated first.
caption_image(cache, l, req, env) ==
    IF IsNone(req.image)
    THEN Untouched(cache, l, BadRequest("No image provided"))
    ELSE IF Val(req.image).filename = ""
    THEN Untouched(cache, l, BadRequest("No image selected"))
    ELSE CaptionBody(cache, l, req, env)

\* -------------------------------------------------------------- /generate
AttributeError(v) == "'" \o TypeName(v) \o "' object has no attribute 'get'"
StartsWithTypeError(prefix) ==
    "startswith first arg must be str or a tuple of str, not " \o TypeName(prefix)

\* request.get_json(silent=True) or {}.  body is what get_json returns: a
\* JSON value, JNull when the request carries no JSON.  A falsy body (None,
\* {}, [], "", 0, 0.0, False) is replaced by the empty dict; a truthy one
\* that is no dict has no get, and the first data.get raises.
RequestData(body) ==
    IF ~JTruthy(body) THEN [raised |-> None, data |-> EmptyDict]
    ELSE IF body.t = "object" THEN [raised |-> None, data |-> body.fields]
    ELSE [raised |-> Some(AttributeError(body)), data |-> EmptyDict]

DefaultMaxNewTokens == 256
DefaultTemperature == JFloat(7, 1)

\* The fields generate_text reads from the body, converted.
GenerateForm(body) ==
    LET d == RequestData(body)
    IN  [raised |-> d.raised,
         prompt |-> DictGet(d.data, "prompt", JStr("")),
         model_key |-> DictGet(d.data, "model", JStr(DefaultLlm)),
         max_new_tokens |-> PyInt(DictGet(d.data, "max_new_tokens",
                                          JInt(DefaultMaxNewTokens))),
         temperature |-> PyFloat(DictGet(d.data, "temperature",
                                         DefaultTemperature))]

\* generate_text from the handle get_llm returned to the response; gen is
\* the outcome of the pipeline call (None when it raises; shape "echo" when
\* the generated text repeats the prompt in front).
GenerateRun(base, f, loaded, gen) ==
    LET fail(msg) == ServerError("Error generating text: " \o msg)
        call == [fn |-> "text-generation",
                 pipe |-> loaded.pipe.pretrained,
                 text_inputs |-> f.prompt,
                 max_new_tokens |-> f.max_new_tokens.v,
                 temperature |-> f.temperature.v,
                 pad_token_id |-> loaded.pad_token_id]
    IN  IF IsNone(gen)
        THEN base @@ [call |-> Some(call), resp |-> fail(InferenceError)]
        ELSE IF f.prompt.t # "str"
        THEN base @@ [call |-> Some(call),
                      resp |-> fail(StartsWithTypeError(f.prompt))]
        ELSE
        LET generated == IF Val(gen).shape = "echo"
                         THEN f.prompt.s \o Val(gen).text
                         ELSE Val(gen).text
            text == IF StartsWith(generated, f.prompt.s)
                    THEN DropPrefix(generated, Len(f.prompt.s))
                    ELSE generated
        IN  base @@ [call |-> Some(call),
                     resp |-> Ok([text |-> Some(text), model |-> f.model_key])]

\* generate_text run without interruption: env.ok and env.tokenizer are
\* the outcome of building the pipeline, env.gen the pipeline call's.
generate_text(cache, l, body, env) ==
    LET fail(msg) == ServerError("Error generating text: " \o msg)
        f == GenerateForm(body)
    IN  IF ~IsNone(f.raised) THEN Untouched(cache, l, fail(Val(f.raised)))
        ELSE IF ~f.max_new_tokens.ok
        THEN Untouched(cache, l, fail(f.max_new_tokens.msg))
        ELSE IF ~f.temperature.ok
        THEN Untouched(cache, l, fail(f.temperature.msg))
        ELSE
        LET g == get_llm(cache, l, f.model_key, env)
            base == [cache |-> g.cache, loads |-> g.loads,
                     key |-> Some(f.model_key), init |-> g.init, ret |-> g.ret]
        IN  IF ~IsNone(g.raised)
            THEN base @@ [call |-> None, resp |-> fail(Val(g.raised))]
            ELSE GenerateRun(base, f, Val(g.ret), env.gen)

\* ------------------------------------------------------ /models, /health
\* The mode tables' keys in the order the registry writes them.
ModeOrders ==
    {<<"caption", "more_detailed", "ocr", "dense", "od">>, <<"caption", "roast">>}

\* list(info.get("modes", {}).keys()) if info.get("modes") else None
ModeNames(info) ==
    IF IsNone(info.modes) \/ DOMAIN Val(info.modes) = {} THEN None
    ELSE Some(CHOOSE o \in ModeOrders :
                 {o[i] : i \in 1..Len(o)} = DOMAIN Val(info.modes))

list_models ==
    Ok([models |-> [i \in 1..Len(MODEL_KEYS) |->
                      LET info == MODELS[MODEL_KEYS[i]]
                      IN  [key |-> MODEL_KEYS[i], name |-> info.name,
                           description |-> info.description,
                           modes |-> ModeNames(info),
                           default_mode |-> info.default_mode]],
        llms |-> [i \in 1..Len(LLM_KEYS) |->
                      LET info == LLM_MODELS[LLM_KEYS[i]]
                      IN  [key |-> LLM_KEYS[i], name |-> info.name,
                           description |-> info.description]]])

health == Ok([status |-> "ok"])

\* ---------------------------------------------------------------- inputs
\* The identifiers, questions and modes the modelled requests carry.
UnknownImageModel == "resnet-50"
UnknownLlm == "gpt-x"

Rejected == {None, Some([filename |-> ""])}
Upload == Some([filename |-> "cat.png"])

\* A /caption request: the uploaded file and the form fields.
Req(image, model, question, mode) ==
    [image |-> image, model |-> model, question |-> question, mode |-> mode]

CaptionModes == {None, Some("ocr"), Some("roast")}

\* The /caption requests of the behaviours: rejected uploads; the default
\* (tag-prompted) model with no mode and with a mode that is none of its
\* own; an unregistered identifier, served by a pipeline model.
CaptionRequests ==
    {Req(i, None, None, None) : i \in Rejected}
    \cup {Req(Upload, None, None, mo) : mo \in {None, Some("roast")}}
    \cup {Req(Upload, Some(UnknownImageModel), None, None)}

\* What a backend returns: [shape, text], or None when it raises.  The
\* tag-prompted backend's decoded text begins with the prompt tag
\* ("echo") or not; the conversational backend returns a dict with the
\* field read ("dict"), without it ("dict_empty") or no dict at all.
Output(shape) == Some([shape |-> shape, text |-> " a cat "])

ShapesOf(model) ==
    LET key == IF IsNone(model) THEN DefaultImageModel ELSE Val(model)
    IN  CASE key = "florence-2" -> {"echo", "plain"}
          [] key = "moondream-2" -> {"dict", "dict_empty", "plain"}
          [] OTHER -> {"plain"}

\* The outcomes of the library calls a request can meet.
CaptionEnvs(req) ==
    IF IsNone(req.image) \/ Val(req.image).filename = ""
    THEN {[decode |-> TRUE, load |-> TRUE, out |-> None]}
    ELSE {[decode |-> FALSE, load |-> TRUE, out |-> None],
          [decode |-> TRUE, load |-> FALSE, out |-> None],
          [decode |-> TRUE, load |-> TRUE, out |-> None]}
         \cup {[decode |-> TRUE, load |-> TRUE, out |-> Output(sh)] :
                  sh \in ShapesOf(req.model)}

\* A JSON object from optional field values.
Field(name, o) == IF IsNone(o) THEN EmptyDict ELSE name :> Val(o)

JObject(prompt, model, max_new_tokens, temperature) ==
    [t |-> "object",
     fields |-> Field("prompt", prompt) @@ Field("model", model)
                @@ Field("max_new_tokens", max_new_tokens)
                @@ Field("temperature", temperature)]

\* The /generate bodies of the behaviours: a JSON list, no model and an
\* unregistered one, an unparsable number.
GenerateBodies ==
    {JArray}
    \cup {JObject(Some(JStr("Hello")), m, None, None) :
             m \in {None, Some(JStr(UnknownLlm))}}
    \cup {JObject(Some(JStr("Hello")), None, Some(JStr("abc")), None)}

EosOnly == Some([pad_token_id |-> None, eos_token_id |-> Some(2)])
ZeroPad == Some([pad_token_id |-> Some(0), eos_token_id |-> Some(2)])

GenOutput(shape) == Some([shape |-> shape, text |-> " world"])

\* The outcomes of building the pipeline: it raises, or it is built with a
\* tokenizer whose pad token is 0.
LlmLoads ==
    {[ok |-> FALSE, tokenizer |-> None], [ok |-> TRUE, tokenizer |-> ZeroPad]}

\* The outcomes of the pipeline call: it raises, or the generated text
\* repeats the prompt in front or does not.
Generations == {None, GenOutput("echo"), GenOutput("plain")}

\* The outcomes of the library calls a /generate request can meet.
GenerateEnvs ==
    {[ok |-> b.ok, tokenizer |-> b.tokenizer, gen |-> g] :
        b \in LlmLoads, g \in Generations}

\* ------------------------------------------------------------------- Init
Threads == {1, 2}

IdleLocal ==
    [which |-> "image", model_key |-> JNull, key |-> "", handle |-> None,
     init |-> FALSE, ret |-> None, alone |-> FALSE]

\* What last holds before any answer, and after a step that answers nothing.
Step ==
    [op |-> "step", key |-> None, mode |-> None, init |-> None, built |-> None,
     ret |-> None, call |-> None, resp |-> [status |-> 0, body |-> [app |-> FALSE]]]

Init ==
    /\ startup = "pending"
    /\ model_cache = EmptyDict
    /\ llm_cache = EmptyDict
    /\ loads = [k \in ImageKeySet \cup LlmKeySet |-> 0]
    /\ failed = FALSE
    /\ served = [image |-> EmptyDict, llm |-> EmptyDict]
    /\ written = [k \in ImageKeySet \cup LlmKeySet |-> None]
    /\ last = Step
    /\ pc = [t \in Threads |-> "idle"]
    /\ local = [t \in Threads |-> IdleLocal]

\* ---------------------------------------------------------------- actions
\* The server runs each request on a thread of its own, and nothing locks
\* the caches.  A request that misses the cache is interleaved with every
\* other request at each access to shared state: the membership test, the
\* backend initialisation, the cache write, and the read of the entry that
\* get_model and get_llm return (the log call stands between the write and
\* that read).  Inference and the response follow the read and touch no
\* shared state: they are part of the read's step.
\*
\* A request that initialises no backend (a rejected or failing one, a
\* cache hit, /models, /health) reads the cache at most twice, in the
\* membership test and in the return; no entry is ever removed, so the test
\* that held holds at the return too, and the request is one step, taken at
\* its return.  It is served whatever the other requests are doing.
\*
\* Threads are the requests that can be between their membership test and
\* their return at once; the idle thread of the lowest number takes the
\* next one.

\* What last holds after a handler has answered: r is what it reports, op
\* its name, mode the mode the request carried and built the handle the
\* request's own backend initialisation built.
Answer(op, mode, built, r) ==
    [op |-> op, key |-> r.key, mode |-> mode, init |-> r.init, built |-> built,
     ret |-> r.ret, call |-> r.call, resp |-> r.resp]

\* No request is between its membership test and its return.
Quiet == \A t \in Threads : pc[t] = "idle"

\* The loads the threads that passed the membership test are about to make.
Pending == Cardinality({t \in Threads : pc[t] = "init"})

WarmupModel == "florence-2"

\* create_app: the warm-up get_model("florence-2"), its exception
\* swallowed; no request is served before it returns.
CreateApp ==
    /\ startup = "pending"
    /\ \E ok \in BOOLEAN :
         LET g == get_model(model_cache, loads, WarmupModel, ok)
             r == [cache |-> g.cache, loads |-> g.loads,
                   key |-> Some(JStr(WarmupModel)), init |-> g.init,
                   ret |-> g.ret, call |-> None,
                   resp |-> [status |-> 0, body |-> [app |-> TRUE]]]
         IN  /\ startup' = IF IsNone(g.raised) THEN "loaded" ELSE "failed"
             /\ model_cache' = g.cache
             /\ loads' = g.loads
             /\ failed' = ~IsNone(g.raised)
             /\ served' = IF IsNone(g.ret) THEN served
                          ELSE [served EXCEPT !["image"] =
                                   CachePut(@, WarmupModel, Val(g.ret))]
             /\ written' = IF IsNone(g.ret) THEN written
                           ELSE [written EXCEPT ![Val(g.init)] = g.ret]
             /\ last' = Answer("create_app", None, g.ret, r)
    /\ UNCHANGED <<llm_cache, pc, local>>

\* /caption answered without a backend initialisation: the upload is
\* rejected, the image does not decode, or the model is cached.
Caption ==
    /\ startup # "pending"
    /\ \E req \in CaptionRequests : \E env \in {e \in CaptionEnvs(req) : e.load} :
         \E r \in {caption_image(model_cache, loads, req, env)} :
             /\ IsNone(r.init)
             /\ last' = Answer("caption", req.mode, None, r)
    /\ UNCHANGED <<startup, model_cache, llm_cache, loads, failed, served,
                   written, pc, local>>

\* /caption up to the membership test of get_model, which fails: the key
\* is resolved and the backend initialisation is next.
CaptionMiss(t) ==
    /\ startup # "pending"
    /\ pc[t] = "idle"
    /\ \A u \in Threads : u < t => pc[u] # "idle"
    /\ TotalLoads(loads) + Pending < MaxLoads
    /\ \E req \in CaptionRequests :
         \E r \in {caption_image(model_cache, loads, req,
                                 [decode |-> TRUE, load |-> TRUE, out |-> None])} :
             /\ ~IsNone(r.init)
             /\ local' = [local EXCEPT ![t] =
                             [op |-> "caption", req |-> req,
                              key |-> Val(r.init), handle |-> None]]
    /\ pc' = [pc EXCEPT ![t] = "init"]
    /\ last' = Step
    /\ UNCHANGED <<startup, model_cache, llm_cache, loads, failed, served, written>>

\* get_model: the backend initialisation.  It raises, and the handler
\* answers 500, or it builds the handle.
CaptionLoad(t) ==
    /\ pc[t] = "init" /\ local[t].op = "caption"
    /\ TotalLoads(loads) < MaxLoads
    /\ LET me == local[t]
           n == loads[me.key] + 1
           l2 == [loads EXCEPT ![me.key] = n]
       IN  /\ loads' = l2
           /\ \E ok \in BOOLEAN :
                IF ok
                THEN /\ local' = [local EXCEPT
                                    ![t].handle = Some(LoadModel(me.key, n))]
                     /\ pc' = [pc EXCEPT ![t] = "write"]
                     /\ last' = Step
                ELSE /\ local' = [local EXCEPT ![t] = IdleLocal]
                     /\ pc' = [pc EXCEPT ![t] = "idle"]
                     /\ last' = Answer("caption", me.req.mode, None,
                           [key |-> Some(JStr(CaptionForm(me.req).model_key)),
                            init |-> Some(me.key), ret |-> None, call |-> None,
                            resp |-> ServerError("Error analyzing image: "
                                                 \o LoadError)])
    /\ UNCHANGED <<startup, model_cache, llm_cache, failed, served, written>>

\* get_model: model_cache[model_key] = {...}
CaptionStore(t) ==
    /\ pc[t] = "write" /\ local[t].op = "caption"
    /\ model_cache' = CachePut(model_cache, local[t].key, Val(local[t].handle))
    /\ written' = [written EXCEPT ![local[t].key] = local[t].handle]
    /\ pc' = [pc EXCEPT ![t] = "return"]
    /\ last' = Step
    /\ UNCHANGED <<startup, llm_cache, loads, failed, served, local>>

\* get_model: return model_cache[model_key], the entry as it is now; then
\* inference on the handle returned, and the response.
CaptionReturn(t) ==
    /\ pc[t] = "return" /\ local[t].op = "caption"
    /\ LET me == local[t]
           f == CaptionForm(me.req)
           loaded == model_cache[me.key]
           base == [key |-> Some(JStr(f.model_key)), init |-> Some(me.key),
                    ret |-> Some(loaded)]
       IN  \E out \in {None} \cup {Output(sh) : sh \in ShapesOf(Some(me.key))} :
             last' = Answer("caption", f.mode, me.handle,
                            CaptionRun(base, f.model_key, f.question, f.mode,
                                       loaded, out))
    /\ local' = [local EXCEPT ![t] = IdleLocal]
    /\ pc' = [pc EXCEPT ![t] = "idle"]
    /\ UNCHANGED <<startup, model_cache, llm_cache, loads, failed, served, written>>

\* /generate answered without a backend initialisation: a field does not
\* convert, the model is unhashable, or the model is cached.
Generate ==
    /\ startup # "pending"
    /\ \E body \in GenerateBodies, env \in {e \in GenerateEnvs : e.ok} :
         \E r \in {generate_text(llm_cache, loads, body, env)} :
             /\ IsNone(r.init)
             /\ last' = Answer("generate", None, None, r)
    /\ UNCHANGED <<startup, model_cache, llm_cache, loads, failed, served,
                   written, pc, local>>

\* /generate up to the membership test of get_llm, which fails.
GenerateMiss(t) ==
    /\ startup # "pending"
    /\ pc[t] = "idle"
    /\ \A u \in Threads : u < t => pc[u] # "idle"
    /\ TotalLoads(loads) + Pending < MaxLoads
    /\ \E body \in GenerateBodies :
         \E r \in {generate_text(llm_cache, loads, body,
                                 [ok |-> TRUE, tokenizer |-> None, gen |-> None])} :
             /\ ~IsNone(r.init)
             /\ local' = [local EXCEPT ![t] =
                             [op |-> "generate", req |-> body,
                              key |-> Val(r.init), handle |-> None]]
    /\ pc' = [pc EXCEPT ![t] = "init"]
    /\ last' = Step
    /\ UNCHANGED <<startup, model_cache, llm_cache, loads, failed, served, written>>

\* get_llm: the pipeline is built and its pad token ensured, or building
\* it raises and the handler answers 500.
GenerateLoad(t) ==
    /\ pc[t] = "init" /\ local[t].op = "generate"
    /\ TotalLoads(loads) < MaxLoads
    /\ LET me == local[t]
           n == loads[me.key] + 1
           l2 == [loads EXCEPT ![me.key] = n]
       IN  /\ loads' = l2
           /\ \E built \in LlmLoads :
                IF built.ok
                THEN /\ local' = [local EXCEPT
                                    ![t].handle =
                                       Some(LoadLlm(me.key, n, built.tokenizer))]
                     /\ pc' = [pc EXCEPT ![t] = "write"]
                     /\ last' = Step
                ELSE /\ local' = [local EXCEPT ![t] = IdleLocal]
                     /\ pc' = [pc EXCEPT ![t] = "idle"]
                     /\ last' = Answer("generate", None, None,
                           [key |-> Some(GenerateForm(me.req).model_key),
                            init |-> Some(me.key), ret |-> None, call |-> None,
                            resp |-> ServerError("Error generating text: "
                                                 \o LoadError)])
    /\ UNCHANGED <<startup, model_cache, llm_cache, failed, served, written>>

\* get_llm: llm_cache[model_key] = {...}
GenerateStore(t) ==
    /\ pc[t] = "write" /\ local[t].op = "generate"
    /\ llm_cache' = CachePut(llm_cache, local[t].key, Val(local[t].handle))
    /\ written' = [written EXCEPT ![local[t].key] = local[t].handle]
    /\ pc' = [pc EXCEPT ![t] = "return"]
    /\ last' = Step
    /\ UNCHANGED <<startup, model_cache, loads, failed, served, local>>

\* get_llm: return llm_cache[model_key], the entry as it is now; then
\* generation with the handle returned, and the response.
GenerateReturn(t) ==
    /\ pc[t] = "return" /\ local[t].op = "generate"
    /\ LET me == local[t]
           f == GenerateForm(me.req)
           loaded == llm_cache[me.key]
           base == [key |-> Some(f.model_key), init |-> Some(me.key),
                    ret |-> Some(loaded)]
       IN  \E gen \in Generations :
             last' = Answer("generate", None, me.handle,
                            GenerateRun(base, f, loaded, gen))
    /\ local' = [local EXCEPT ![t] = IdleLocal]
    /\ pc' = [pc EXCEPT ![t] = "idle"]
    /\ UNCHANGED <<startup, model_cache, llm_cache, loads, failed, served, written>>

ListModels ==
    /\ startup # "pending"
    /\ last' = Answer("models", None, None,
                      Untouched(model_cache, loads, list_models))
    /\ UNCHANGED <<startup, model_cache, llm_cache, loads, failed, served,
                   written, pc, local>>

Health ==
    /\ startup # "pending"
    /\ last' = Answer("health", None, None, Untouched(model_cache, loads, health))
    /\ UNCHANGED <<startup, model_cache, llm_cache, loads, failed, served,
                   written, pc, local>>

Next ==
    \/ CreateApp
    \/ Caption
    \/ Generate
    \/ ListModels
    \/ Health
    \/ \E t \in Threads :
          \/ CaptionMiss(t) \/ CaptionLoad(t) \/ CaptionStore(t) \/ CaptionReturn(t)
          \/ GenerateMiss(t) \/ GenerateLoad(t) \/ GenerateStore(t)
          \/ GenerateReturn(t)

Spec == Init /\ [][Next]_vars

\* ------------------------------------------------------ the cache calls
\* Calls of get_model and get_llm after the warm-up of create_app, each on
\* a request thread of its own.  Nothing locks the caches: a call is
\* interleaved with the other thread's at the membership test, the backend
\* initialisation, the cache write and the read of the entry returned.
\* Calls made one after the other are the behaviours in which a thread
\* enters while no other thread is inside a call.
RaceImageIds == {"florence-2", "moondream-2", UnknownImageModel}
RaceLlmIds == {JStr("smollm2-1.7b"), JStr("phi3-mini"), JStr(UnknownLlm), JArray}

CacheOf(which) == IF which = "image" THEN model_cache ELSE llm_cache

\* model_key in cache
InCache(cache, model_key) == InLlmCache(cache, model_key)

\* No thread other than t is inside a call.
Alone(t) == \A u \in Threads \ {t} : pc[u] \in {"idle", "done"}

\* A thread enters get_model or get_llm.  alone tells whether the call
\* overlaps no other: it is set when no other thread is inside a call, and
\* cleared for every thread when another call begins.
RaceCall(t) ==
    /\ startup # "pending"
    /\ pc[t] \in {"idle", "done"}
    /\ \E which \in {"image", "llm"} :
       \E k \in IF which = "image" THEN {JStr(i) : i \in RaceImageIds}
                ELSE RaceLlmIds :
         local' = [u \in Threads |->
                      IF u = t
                      THEN [which |-> which, model_key |-> k, key |-> "",
                            handle |-> None, init |-> FALSE, ret |-> None,
                            alone |-> Alone(t)]
                      ELSE [local[u] EXCEPT !.alone = FALSE]]
    /\ pc' = [pc EXCEPT ![t] = "test"]
    /\ UNCHANGED <<startup, model_cache, llm_cache, loads, failed, served,
                   written, last>>

\* if model_key not in cache: resolve the key; else return the cached
\* handle.  A list is no dict key: the test raises.
RaceTest(t) ==
    /\ pc[t] = "test"
    /\ LET me == local[t]
           cache == CacheOf(me.which)
       IN  IF ~Hashable(me.model_key)
           THEN /\ local' = local
                /\ pc' = [pc EXCEPT ![t] = "done"]
                /\ served' = served
           ELSE IF InCache(cache, me.model_key)
           THEN /\ local' = [local EXCEPT ![t].ret = Some(cache[me.model_key.s])]
                /\ pc' = [pc EXCEPT ![t] = "done"]
                /\ served' = [served EXCEPT ![me.which] =
                                 CachePut(@, me.model_key.s, cache[me.model_key.s])]
           ELSE /\ local' = [local EXCEPT ![t].key =
                                IF me.which = "image"
                                THEN ResolveModelKey(me.model_key.s)
                                ELSE ResolveLlmKey(me.model_key)]
                /\ pc' = [pc EXCEPT ![t] = "init"]
                /\ served' = served
    /\ UNCHANGED <<startup, model_cache, llm_cache, loads, failed, written, last>>

\* The backend initialisation: it raises, or it builds a handle.
RaceInit(t) ==
    /\ pc[t] = "init"
    /\ TotalLoads(loads) < MaxLoads
    /\ LET me == local[t]
           n == loads[me.key] + 1
       IN  /\ loads' = [loads EXCEPT ![me.key] = n]
           /\ \E ok \in BOOLEAN :
                IF ok
                THEN /\ local' = [local EXCEPT
                                    ![t].handle =
                                       Some(IF me.which = "image"
                                            THEN LoadModel(me.key, n)
                                            ELSE LoadLlm(me.key, n, EosOnly)),
                                    ![t].init = TRUE]
                     /\ pc' = [pc EXCEPT ![t] = "write"]
                     /\ failed' = failed
                ELSE /\ local' = local
                     /\ pc' = [pc EXCEPT ![t] = "done"]
                     /\ failed' = TRUE
    /\ UNCHANGED <<startup, model_cache, llm_cache, served, written, last>>

\* cache[key] = handle
RaceWrite(t) ==
    /\ pc[t] = "write"
    /\ LET me == local[t]
           c2 == CachePut(CacheOf(me.which), me.key, Val(me.handle))
       IN  /\ IF me.which = "image"
              THEN model_cache' = c2 /\ llm_cache' = llm_cache
              ELSE llm_cache' = c2 /\ model_cache' = model_cache
           /\ written' = [written EXCEPT ![me.key] = me.handle]
    /\ pc' = [pc EXCEPT ![t] = "return"]
    /\ UNCHANGED <<startup, loads, failed, served, last, local>>

\* return cache[key], the entry as it is now
RaceReturn(t) ==
    /\ pc[t] = "return"
    /\ LET me == local[t]
           h == CacheOf(me.which)[me.key]
       IN  /\ local' = [local EXCEPT ![t].ret = Some(h)]
           /\ served' = [served EXCEPT ![me.which] = CachePut(@, me.model_key.s, h)]
    /\ pc' = [pc EXCEPT ![t] = "done"]
    /\ UNCHANGED <<startup, model_cache, llm_cache, loads, failed, written, last>>

RaceNext ==
    \/ CreateApp
    \/ \E t \in Threads :
          RaceCall(t) \/ RaceTest(t) \/ RaceInit(t) \/ RaceWrite(t) \/ RaceReturn(t)

SpecRace == Init /\ [][RaceNext]_vars

\* ================================================================ claims

\* C1 (as claimed): in a sequence of get_model calls, and of get_llm calls,
\* in which no initialisation fails, once a call with identifier k has
\* returned, every later call with the same k initialises no backend and
\* returns the handle the earlier call returned, for registered and
\* unregistered k alike.  (The later call is one that overlaps no other
\* call: it is the next call of the sequence.)
CacheIdempotent ==
    [][\A t \in Threads :
          (/\ pc[t] # "done" /\ pc'[t] = "done"
           /\ local'[t].alone
           /\ ~failed'
           /\ local'[t].model_key.t = "str"
           /\ local'[t].model_key.s \in DOMAIN served[local'[t].which])
          => (/\ ~local'[t].init
              /\ local'[t].ret =
                    Some(served[local'[t].which][local'[t].model_key.s]))]_vars

\* The questions, modes and library outcomes the claims about every
\* request range over.
AnyQuestion == {None, Some(""), Some(" Why? ")}
AnyMode ==
    {None, Some(""), Some("bogus"), Some("ocr"), Some("roast"), Some("caption"),
     Some("more_detailed"), Some("MORE_DETAILED")}
AnyImage == Rejected \cup {Upload}
AnyModel == {None, Some(UnknownImageModel)} \cup {Some(k) : k \in ImageKeySet}
AnyCaptionEnv ==
    [decode : BOOLEAN, load : BOOLEAN,
     out : {None} \cup {Output(sh) : sh \in {"echo", "plain", "dict", "dict_empty"}}]

\* C2 (as claimed): in every cache state, for every image, question and
\* mode, a /caption request whose model is no registered identifier behaves
\* as the same request without a model field: the same backend is
\* initialised and returned, the same response is produced and the same
\* cache contents result.
UnknownModelActsAsDefault ==
    startup # "pending" =>
        \A i \in AnyImage, q \in AnyQuestion, m \in AnyMode, env \in AnyCaptionEnv :
            LET a == caption_image(model_cache, loads,
                                   Req(i, Some(UnknownImageModel), q, m), env)
                b == caption_image(model_cache, loads, Req(i, None, q, m), env)
            IN  /\ a.init = b.init
                /\ a.ret = b.ret
                /\ a.resp = b.resp
                /\ a.cache = b.cache

\* The /generate bodies the claims about every body range over: no JSON,
\* a JSON list, every kind of model value, a missing and a null prompt, and
\* the numeric fields missing, null, unparsable and parsable.
AnyLlm ==
    {None, Some(JNull), Some(JArray), Some(JStr(UnknownLlm)), Some(JStr("phi3-mini"))}
AnyBody ==
    {JNull, JArray}
    \cup {JObject(Some(JStr("Hello")), m, None, None) : m \in AnyLlm}
    \cup {JObject(p, None, None, None) : p \in {None, Some(JNull)}}
    \cup {JObject(Some(JStr("Hello")), None, n, None) :
             n \in {Some(JNull), Some(JStr("abc"))}}
    \cup {JObject(Some(JStr("Hello")), None, None, t) :
             t \in {Some(JNull), Some(JStr("hot"))}}
    \cup {JObject(Some(JStr("Hello")), None, Some(JStr(" 32 ")), Some(JStr("0.25")))}

\* The value /generate is claimed to use for a field: the field's own
\* value when it is present and valid, the default otherwise.
FieldsOf(body) == IF body.t = "object" THEN body.fields ELSE EmptyDict

ClaimedPrompt(body) ==
    LET v == DictGet(FieldsOf(body), "prompt", JStr(""))
    IN  IF v.t = "str" THEN v ELSE JStr("")

ClaimedLlm(body) ==
    LET v == DictGet(FieldsOf(body), "model", JStr(DefaultLlm))
    IN  IF v.t = "str" /\ v.s \in LlmKeySet THEN v.s ELSE DefaultLlm

ClaimedMaxNewTokens(body) ==
    LET v == PyInt(DictGet(FieldsOf(body), "max_new_tokens",
                           JInt(DefaultMaxNewTokens)))
    IN  IF v.ok THEN v.v ELSE DefaultMaxNewTokens

ClaimedTemperature(body) ==
    LET v == PyFloat(DictGet(FieldsOf(body), "temperature", DefaultTemperature))
    IN  IF v.ok THEN v.v ELSE [m |-> DefaultTemperature.m, e |-> DefaultTemperature.e]

\* C3 (as claimed): whenever a field of the /generate body is absent or
\* invalid (a body that is no JSON object included), and loading and
\* generation succeed, the handler answers 200 and has called the backend
\* with the default in place of that field: prompt "", the default text
\* model, max_new_tokens 256, temperature 0.7.
GenerateSubstitutesDefaults ==
    startup # "pending" =>
        \A body \in AnyBody, env \in GenerateEnvs :
            (env.ok /\ ~IsNone(env.gen)) =>
                LET r == generate_text(llm_cache, loads, body, env)
                IN  /\ r.resp.status = 200
                    /\ Val(r.call).text_inputs = ClaimedPrompt(body)
                    /\ Val(r.call).pipe = LLM_MODELS[ClaimedLlm(body)].model
                    /\ Val(r.call).max_new_tokens = ClaimedMaxNewTokens(body)
                    /\ Val(r.call).temperature = ClaimedTemperature(body)

\* C9 (as claimed): the model field of every successful /generate response
\* is a key of the text-model registry, and it is the key of the model whose
\* cached handle produced the text.
GenerateNamesTheModelUsed ==
    (last.op = "generate" /\ last.resp.status = 200) =>
        /\ last.resp.body.model.t = "str"
        /\ last.resp.body.model.s \in LlmKeySet
        /\ Val(last.ret).pipe.pretrained = LLM_MODELS[last.resp.body.model.s].model

\* Which initialisation of its key built a handle.
HandleN(h) == IF "pipe" \in DOMAIN h THEN h.pipe.n ELSE h.model.n

\* Whether the identifier key is in the cache (ic or lc) the handler op
\* reads.
Cached(ic, lc, op, key) ==
    IF op = "generate" THEN InLlmCache(lc, key) ELSE key.s \in DOMAIN ic

\* The key under which the cache function of the handler op loads the
\* identifier key.
Resolved(op, key) ==
    IF op = "generate" THEN ResolveLlmKey(key) ELSE ResolveModelKey(key.s)

\* The identifier the request of a thread carries.
RequestedId(me) ==
    IF me.op = "generate" THEN GenerateForm(me.req).model_key
    ELSE JStr(CaptionForm(me.req).model_key)

\* The step is the answer to a cache call whose backend initialisation
\* raised.
FailedLoad ==
    /\ last'.op \in {"create_app", "caption", "generate"}
    /\ last.op = "caption"
    /\ last.key = Some(JStr(DefaultImageModel))
    /\ loads[DefaultImageModel] = 3
    /\ ~IsNone(last.built) /\ HandleN(Val(last.built)) = 3
    /\ ~IsNone(last.ret) /\ HandleN(Val(last.ret)) = 2
    /\ model_cache[DefaultImageModel] = Val(last.ret)

\* The /caption requests for the default image model after a failed
\* warm-up: without a model field or naming the model.
DefaultModelFields == {None, Some(DefaultImageModel)}

\* C5 (as claimed): after a failed warm-up, until a /caption request for
\* the default model has attempted the load, every such request attempts
\* it, whatever its upload.
WarmupFailedAnyRequestLoads ==
    (startup = "failed" /\ loads[DefaultImageModel] = 1 /\ Quiet) =>
        \A i \in AnyImage, m \in DefaultModelFields, q \in AnyQuestion,
           mo \in CaptionModes, env \in AnyCaptionEnv :
            caption_image(model_cache, loads, Req(i, m, q, mo), env).init
                = Some(DefaultImageModel)

\* C5: start-up warm-up.  create_app makes exactly one load attempt, for
\* the default image model, and returns the app whether or not it fails.
\* After a failed warm-up the image cache is empty and, until a /caption
\* request for the default model has attempted the load, every such request
\* whose upload is accepted and whose image decodes attempts it (a request
\* rejected or failing before the model is resolved attempts nothing).
\* After a successful warm-up the image cache holds exactly the default
\* model, which is never initialised again, and a /caption request without
\* a model field initialises no backend.  (The requests are those made
\* while no other request is inside a cache function; every cache state
\* occurs so.)
StartupWarmup ==
    /\ last.op = "create_app" =>
          /\ TotalLoads(loads) = 1
          /\ loads[DefaultImageModel] = 1
          /\ last.init = Some(DefaultImageModel)
          /\ last.resp.body.app
          /\ startup = "failed" => DOMAIN model_cache = {}
          /\ startup = "loaded" => DOMAIN model_cache = {DefaultImageModel}
    /\ (startup = "failed" /\ loads[DefaultImageModel] = 1) =>
          /\ DefaultImageModel \notin DOMAIN model_cache
          /\ Quiet =>
              /\ \A m \in DefaultModelFields, q \in AnyQuestion,
                    mo \in CaptionModes, env \in AnyCaptionEnv :
                    LET r == caption_image(model_cache, loads,
                                           Req(Upload, m, q, mo), env)
                    IN  IF env.decode
                        THEN /\ r.init = Some(DefaultImageModel)
                             /\ r.loads[DefaultImageModel] = 2
                        ELSE /\ IsNone(r.init)
                             /\ r.loads = loads
                             /\ r.resp.status = 500
              /\ \A i \in Rejected, m \in DefaultModelFields :
                    LET r == caption_image(model_cache, loads,
                                           Req(i, m, None, None),
                                           [decode |-> TRUE, load |-> TRUE,
                                            out |-> None])
                    IN  IsNone(r.init) /\ r.loads = loads
    /\ startup = "loaded" =>
          /\ DefaultImageModel \in DOMAIN model_cache
          /\ loads[DefaultImageModel] = 1
          /\ Quiet =>
              \A q \in AnyQuestion, mo \in CaptionModes, env \in AnyCaptionEnv :
                LET r == caption_image(model_cache, loads,
                                       Req(Upload, None, q, mo), env)
                IN  /\ IsNone(r.init)
                    /\ r.loads = loads
                    /\ r.cache = model_cache

\* C5 witness: the warm-up failed and the first /caption request for the
\* default model made the second load attempt, which succeeded.
WarmupFailedThenLazyLoad ==
    /\ startup = "failed"
    /\ last.op = "caption"
    /\ last.key = Some(JStr(DefaultImageModel))
    /\ last.init = Some(DefaultImageModel)
    /\ loads[DefaultImageModel] = 2
    /\ last.resp.status = 200

\* C6: input validation of /caption.  In every cache state and whatever
\* the other form fields and the library would do, a request without an
\* image file is answered 400 "No image provided" and one whose file has
\* the filename "" is answered 400 "No image selected"; no model is
\* resolved, no backend is initialised and both caches stay as they are.
\* (Every cache state occurs with no load in flight, where the rejected
\* request is taken.)
CaptionValidation ==
    /\ []((startup # "pending" /\ Quiet) =>
            \A m \in AnyModel, q \in AnyQuestion, mo \in CaptionModes,
               env \in {e \in AnyCaptionEnv : e.decode = e.load} :
                LET a == caption_image(model_cache, loads, Req(None, m, q, mo), env)
                    b == caption_image(model_cache, loads,
                                       Req(Some([filename |-> ""]), m, q, mo), env)
                IN  /\ a.resp = BadRequest("No image provided")
                    /\ b.resp = BadRequest("No image selected")
                    /\ \A r \in {a, b} :
                          /\ r.cache = model_cache
                          /\ r.loads = loads
                          /\ IsNone(r.key) /\ IsNone(r.init) /\ IsNone(r.ret))
    /\ [][(last'.op = "caption" /\ last'.resp.status = 400)
          => (/\ UNCHANGED <<model_cache, llm_cache, loads>>
              /\ IsNone(last'.init))]_vars

\* C6 witness: a /caption request without an image was answered 400 while
\* the image cache held only the warmed-up model.
CaptionRejected ==
    /\ last.op = "caption"
    /\ last.resp = BadRequest("No image provided")
    /\ DOMAIN model_cache = {DefaultImageModel}
    /\ TotalLoads(loads) = 1

\* The modes that are no key of a descriptor's mode table.
NotAModeOf(key) ==
    {mo \in AnyMode : IsNone(mo) \/ Val(mo) \notin DOMAIN Val(MODELS[key].modes)}

\* C8: mode fallback.  For the tag-prompted backend a request whose mode
\* is missing, empty or no key of the mode table has the prompt tag, the
\* inference call, the response and the cache effect of the request naming
\* the descriptor's default mode; for the conversational backend a missing
\* or unrecognised mode makes the inference call of the default mode.  No
\* mode value changes the status of the response, which is 200 whenever
\* decoding, loading and inference succeed.  (The requests range over
\* every cache state: each one occurs with no load in flight.)
ModeFallback ==
    (startup # "pending" /\ Quiet) =>
        \A key \in {"florence-2", "moondream-2"}, q \in AnyQuestion :
        \A env \in CaptionEnvs(Req(Upload, Some(key), q, None)) :
            LET run(mo) == caption_image(model_cache, loads,
                                         Req(Upload, Some(key), q, mo), env)
                default == MODELS[key].default_mode
                d == run(default)
                fine == env.decode /\ env.load /\ ~IsNone(env.out)
            IN  \A mo \in AnyMode :
                    LET r == run(mo)
                    IN  /\ r.resp.status = d.resp.status
                        /\ fine => r.resp.status = 200
                        /\ mo \in NotAModeOf(key) =>
                              /\ r = d
                              /\ key = "florence-2" =>
                                    /\ florence_prompt_for_mode(mo)
                                         = Val(MODELS[key].modes)[Val(default)]
                                    /\ fine =>
                                          Val(r.call).prompt
                                             = Some("<MORE_DETAILED_CAPTION>")

\* C8 witness: the default (tag-prompted) model answered 200 to a request
\* whose mode "roast" is no key of its mode table, with the tag of its
\* default mode.
UnknownModeServed ==
    /\ last.op = "caption"
    /\ last.key = Some(JStr("florence-2"))
    /\ last.mode = Some("roast")
    /\ last.resp.status = 200
    /\ Val(last.call).prompt = Some("<MORE_DETAILED_CAPTION>")

\* The type tag a descriptor's handle carries.
BackendType(key) ==
    IF IsNone(MODELS[key].type) THEN "pipeline" ELSE Val(MODELS[key].type)

\* C10: cache well-formedness.  After any sequence of the warm-up and of
\* requests, every key of the image cache is a registered image model whose
\* handle has the descriptor's backend type, every key of the text cache is
\* a registered text model, and /models and /health change neither cache.
CacheWellFormed ==
    /\ [](/\ DOMAIN model_cache \subseteq ImageKeySet
          /\ \A k \in DOMAIN model_cache : model_cache[k].type = BackendType(k)
          /\ DOMAIN llm_cache \subseteq LlmKeySet)
    /\ [][last'.op \in {"models", "health"}
          => UNCHANGED <<model_cache, llm_cache>>]_vars

\* C10 witness: both caches hold their fallback models, the image one as
\* the handle written last for its key, and /health has just been served.
FallbacksCached ==
    /\ last.op = "health"
    /\ "blip-base" \in DOMAIN model_cache
    /\ written["blip-base"] = Some(model_cache["blip-base"])
    /\ DefaultLlm \in DOMAIN llm_cache

\* C7: no mutual exclusion around the caches.  Each cache entry is the
\* handle written last for its key, whichever thread initialised first; and
\* two threads that both built a handle for one key built two backends,
\* neither load having been prevented by the other.
LastWriterWins ==
    /\ \A k \in ImageKeySet :
          ~IsNone(written[k]) =>
              k \in DOMAIN model_cache /\ model_cache[k] = Val(written[k])
    /\ \A k \in LlmKeySet :
          ~IsNone(written[k]) =>
              k \in DOMAIN llm_cache /\ llm_cache[k] = Val(written[k])
    /\ \A t, u \in Threads :
          (/\ t # u
           /\ local[t].init /\ local[u].init
           /\ local[t].which = local[u].which
           /\ local[t].key = local[u].key)
          => /\ local[t].handle # local[u].handle
             /\ loads[local[t].key] >= 2

\* C7 witness: after a failed warm-up both threads asked for the
\* registered, uncached model "florence-2", both initialised the backend
\* and both have written and returned; thread 2 built the earlier handle
\* and wrote last, so the cache holds its handle although thread 1 built
\* the later one.
DuplicateLoad ==
    /\ startup = "failed"
    /\ pc[1] = "done" /\ pc[2] = "done"
    /\ local[1].model_key = JStr("florence-2")
    /\ local[2].model_key = JStr("florence-2")
    /\ local[1].init /\ local[2].init
    /\ loads["florence-2"] = 3
    /\ HandleN(Val(local[1].handle)) = 3
    /\ HandleN(Val(local[2].handle)) = 2
    /\ model_cache["florence-2"] = Val(local[2].handle)
    /\ local[1].ret = local[1].handle

====
